---- MODULE Spec2Model ----
(***************************************************************************)
(* A model of the astro chart calculator: the swisseph adapter (mutex and  *)
(* native calls), the house-system resolver, the zodiac mapper, the chart  *)
(* assembler output.Build, and the two command-line drivers (cmd.Run and   *)
(* the self-contained main of main.go).                                    *)
(*                                                                         *)
(* Angles are fixed-point numbers: LonScale units make one degree.  The    *)
(* float64 operations of the code (a division by 30, a truncation, one     *)
(* multiplication and one subtraction) are exact on this grid.             *)
(* Strings that the code inspects character by character are sequences of  *)
(* Unicode code points; strings it only copies are TLA+ strings.           *)
(***************************************************************************)
EXTENDS Integers, Sequences, FiniteSets, TLC

VARIABLES
    entry,            \* which driver runs: "Run" (cmd/run.go) or "main" (main.go)
    pc,               \* position of the driver
    jsonFlag,         \* --json
    houseSystemFlag,  \* --house-system, a sequence of code points
    hsys,             \* resolved house-system code (a code point, 0 = none)
    hsysName,         \* name handed to the assembler / printer
    jd, lat, lon,     \* Julian day and location
    i,                \* index into planets of the body loop
    r,                \* the Result (or JSON document) under construction
    built,            \* what output.Build returned: [r, err]
    err,              \* the error the driver ends with ("nil" = none)
    exitCode,         \* process exit status set by main.go (-1 = not set)
    stdout,           \* what was written to standard output, in order
    calls,            \* log of adapter calls: [op, planet, ok, resp]
    mu,               \* the adapter mutex: 0 = unlocked, else the holder
    cpc, cop,         \* concurrent callers: position and current operation
    base,             \* resolver harness: the text being typed
    hsErr,            \* resolver harness: the error parseHouseSystem returned
    longitude,        \* zodiac harness: input of ZodiacSign
    zodiac,           \* zodiac harness: what ZodiacSign returned
    verbose,          \* the verbosity toggle handed to the renderers
    ci                \* concurrent Build invocations: index of the body loop

vars == <<entry, pc, jsonFlag, houseSystemFlag, hsys, hsysName, jd, lat, lon,
          i, r, built, err, exitCode, stdout, calls, mu, cpc, cop, base,
          hsErr, longitude, zodiac, verbose, ci>>

progVars == <<entry, pc, jsonFlag, houseSystemFlag, hsys, hsysName, jd, lat,
              lon, i, r, built, err, exitCode, stdout, calls>>
concVars == <<mu, cpc, cop>>
resolveVars == <<base, hsErr>>
zodiacVars == <<longitude, zodiac>>
\* what a run of the program leaves alone
otherVars == <<mu, cpc, cop, base, longitude, zodiac, verbose, ci>>

-----------------------------------------------------------------------------
(* Bounds of the model *)

\* units per degree of the fixed-point angles
LonScale == 2
\* number of concurrent callers of the adapter
NumCallers == 2
\* bodies in the list each concurrent caller hands to Build
NumBodies == 2

-----------------------------------------------------------------------------
(* swisseph: constants *)

Sun == 0
Moon == 1
Mercury == 2
Venus == 3
Mars == 4
Jupiter == 5
Saturn == 6

HousePlacidus == 80
HouseKoch == 75
HouseWholeSign == 87
HouseRegiomontanus == 82
HouseEqual == 65
HouseCampanus == 67

-----------------------------------------------------------------------------
(* swisseph.ZodiacSign *)

signs == << "Aries", "Taurus", "Gemini", "Cancer",
            "Leo", "Virgo", "Libra", "Scorpio",
            "Sagittarius", "Capricorn", "Aquarius", "Pisces" >>

\* Go's int(x) of a quotient: truncation toward zero
TruncDiv(a, b) == IF a >= 0 THEN a \div b ELSE -((-a) \div b)

\* ZodiacSign with the quotient rounded to nearest instead of truncated
ZodiacSign_rounded(l) ==
    LET idx0 == TruncDiv(l + 15 * LonScale, 30 * LonScale)
        idx == IF idx0 >= 12 THEN 11 ELSE idx0
    IN  [sign |-> signs[idx + 1], degrees |-> l - idx * 30 * LonScale]

ZodiacSign(l) ==
    LET idx0 == TruncDiv(l, 30 * LonScale)
        idx == IF idx0 >= 12 THEN 11 ELSE idx0
    IN  [sign |-> signs[idx + 1], degrees |-> l - idx * 30 * LonScale]

-----------------------------------------------------------------------------
(* House-system resolver: strings.ToLower and the switch *)

\* ToLowerRune folding nothing
ToLowerRune_none(c) == c

\* unicode.ToLower on the code points of the model's alphabet: A-Z fold to
\* a-z, and U+212A KELVIN SIGN folds to "k" (simple case mapping)
ToLowerRune(c) ==
    IF c >= 65 /\ c <= 90 THEN c + 32
    ELSE IF c = 8490 THEN 107
    ELSE c

ToLower(s) == [k \in 1..Len(s) |-> ToLowerRune(s[k])]

n_placidus == <<112, 108, 97, 99, 105, 100, 117, 115>>
n_koch == <<107, 111, 99, 104>>
n_whole_sign == <<119, 104, 111, 108, 101, 45, 115, 105, 103, 110>>
n_regiomontanus == <<114, 101, 103, 105, 111, 109, 111, 110, 116, 97, 110, 117, 115>>
n_equal == <<101, 113, 117, 97, 108>>
n_campanus == <<99, 97, 109, 112, 97, 110, 117, 115>>

\* the names listed in the error text of the default branch
validNamesInError == <<n_placidus, n_koch, n_whole_sign, n_regiomontanus,
                       n_equal, n_campanus>>

NoError == [isErr |-> FALSE, input |-> <<>>, valid |-> <<>>]

\* cmd/run.go
parseHouseSystem(name) ==
    LET low == ToLower(name) IN
    IF low = n_placidus THEN
        [code |-> HousePlacidus, displayName |-> "Placidus", err |-> NoError]
    ELSE IF low = n_koch THEN
        [code |-> HouseKoch, displayName |-> "Koch", err |-> NoError]
    ELSE IF low = n_whole_sign THEN
        [code |-> HouseWholeSign, displayName |-> "Whole Sign", err |-> NoError]
    ELSE IF low = n_regiomontanus THEN
        [code |-> HouseRegiomontanus, displayName |-> "Regiomontanus", err |-> NoError]
    ELSE IF low = n_equal THEN
        [code |-> HouseEqual, displayName |-> "Equal", err |-> NoError]
    ELSE IF low = n_campanus THEN
        [code |-> HouseCampanus, displayName |-> "Campanus", err |-> NoError]
    ELSE
        [code |-> 0, displayName |-> "",
         err |-> [isErr |-> TRUE, input |-> name, valid |-> validNamesInError]]

\* main.go: the older resolver returns the code only
main_parseHouseSystem(name) ==
    LET low == ToLower(name) IN
    IF low = n_placidus THEN [code |-> HousePlacidus, isErr |-> FALSE]
    ELSE IF low = n_koch THEN [code |-> HouseKoch, isErr |-> FALSE]
    ELSE IF low = n_whole_sign THEN [code |-> HouseWholeSign, isErr |-> FALSE]
    ELSE IF low = n_regiomontanus THEN [code |-> HouseRegiomontanus, isErr |-> FALSE]
    ELSE IF low = n_equal THEN [code |-> HouseEqual, isErr |-> FALSE]
    ELSE IF low = n_campanus THEN [code |-> HouseCampanus, isErr |-> FALSE]
    ELSE [code |-> 0, isErr |-> TRUE]

-----------------------------------------------------------------------------
(* swisseph: the adapter functions around the native calls *)

\* the body list with the two luminaries exchanged
planets_moonFirst == <<Moon, Sun, Mercury, Venus, Mars, Jupiter, Saturn>>

planets == <<Sun, Moon, Mercury, Venus, Mars, Jupiter, Saturn>>

\* what swe_get_planet_name writes for the seven traditional planets
PlanetName(p) ==
    <<"Sun", "Moon", "Mercury", "Venus", "Mars", "Jupiter", "Saturn">>[p + 1]

ZeroPos == [Longitude |-> 0, Latitude |-> 0, Distance |-> 0,
            SpeedLon |-> 0, SpeedLat |-> 0, SpeedDistance |-> 0]

\* CalcPlanet after the native call: ret is the status of swe_calc_ut and
\* xx the six doubles it filled
CalcPlanet(ret, xx) ==
    IF ret < 0
    THEN [pos |-> ZeroPos, isErr |-> TRUE]
    ELSE [pos |-> [Longitude |-> xx[1], Latitude |-> xx[2], Distance |-> xx[3],
                   SpeedLon |-> xx[4], SpeedLat |-> xx[5],
                   SpeedDistance |-> xx[6]],
          isErr |-> FALSE]

ZeroHouses == [Cusps |-> [k \in 0..12 |-> 0], Ascendant |-> 0, MC |-> 0,
               ARMC |-> 0, Vertex |-> 0]

\* CalcHouses after the native call: ret is the status of swe_houses,
\* cusps its 13 doubles (slot 0 unused) and ascmc its angle array
CalcHouses(ret, cusps, ascmc) ==
    IF ret < 0
    THEN [houses |-> ZeroHouses, isErr |-> TRUE]
    ELSE [houses |-> [Cusps |-> [k \in 0..12 |-> cusps[k]],
                      Ascendant |-> ascmc[0], MC |-> ascmc[1],
                      ARMC |-> ascmc[2], Vertex |-> ascmc[3]],
          isErr |-> FALSE]

-----------------------------------------------------------------------------
(* The native engine: the responses the model draws from *)

Deg(d) == d * LonScale

\* swe_calc_ut: a negative status, or status 0 with six doubles
CalcUtResponses ==
    { [ret |-> -1, xx |-> <<0, 0, 0, 0, 0, 0>>],
      [ret |-> 0, xx |-> <<Deg(280) + 1, 1, 2, 3, 4, 5>>],
      [ret |-> 0, xx |-> <<Deg(360) - 1, -1, 7, -3, 8, 9>>] }

\* equal 30-degree cusps from an ascendant, slot 0 left at zero
CuspsFrom(asc) ==
    [k \in 0..12 |-> IF k = 0 THEN 0 ELSE (asc + Deg(30) * (k - 1)) % Deg(360)]

AscmcFrom(asc) ==
    [k \in 0..9 |-> CASE k = 0 -> asc
                      [] k = 1 -> (asc + Deg(270)) % Deg(360)
                      [] k = 2 -> (asc + Deg(271)) % Deg(360)
                      [] k = 3 -> (asc + Deg(180) + 1) % Deg(360)
                      [] OTHER -> 0]

\* swe_houses: a negative status, or status 0 with cusps and angles
HousesResponses ==
    { [ret |-> -1, cusps |-> CuspsFrom(0), ascmc |-> AscmcFrom(0)] }
    \cup { [ret |-> 0, cusps |-> CuspsFrom(a), ascmc |-> AscmcFrom(a)] :
              a \in {Deg(24) + 1, Deg(359) + 1} }

\* swe_julday of the parsed instant
JulDayResponses == {2451545}

\* a log entry: the adapter function, its body argument (-1 = none), whether
\* it returned without error, and what the native call had answered
NativeCall(op, p, ok, resp) == [op |-> op, planet |-> p, ok |-> ok, resp |-> resp]

Call(op, p, ok) == NativeCall(op, p, ok, <<>>)

-----------------------------------------------------------------------------
(* output: Result and Build *)

ZeroAngle == [Longitude |-> 0, Sign |-> "", SignDegree |-> 0]

EmptyResult == [JulianDay |-> 0, HouseName |-> "", Lat |-> 0, Lon |-> 0,
                Planets |-> <<>>, Ascendant |-> ZeroAngle, MC |-> ZeroAngle,
                ARMC |-> 0, Vertex |-> ZeroAngle, Cusps |-> <<>>]

NilErr == [kind |-> "nil", detail |-> ""]
Running == [kind |-> "running", detail |-> ""]
Error(kind, detail) == [kind |-> kind, detail |-> detail]

NotBuilt == [r |-> EmptyResult, err |-> Running]

\* an angle entry keeping the degree within the sign as its longitude
AngleEntry_withinSign(l) ==
    LET z == ZodiacSign(l) IN
    [Longitude |-> z.degrees, Sign |-> z.sign, SignDegree |-> z.degrees]

AngleEntry(l) ==
    LET z == ZodiacSign(l) IN
    [Longitude |-> l, Sign |-> z.sign, SignDegree |-> z.degrees]

CuspEntry(k, l) ==
    LET z == ZodiacSign(l) IN
    [House |-> k, Longitude |-> l, Sign |-> z.sign, SignDegree |-> z.degrees]

\* the body entry of the earlier Result: the four raw fields left at zero
PlanetEntry_basic(name, pos) ==
    LET z == ZodiacSign(pos.Longitude) IN
    [Name |-> name, Longitude |-> pos.Longitude, Sign |-> z.sign,
     SignDegree |-> z.degrees, Speed |-> pos.SpeedLon,
     Latitude |-> 0, Distance |-> 0, SpeedLat |-> 0, SpeedDistance |-> 0]

PlanetEntry(name, pos) ==
    LET z == ZodiacSign(pos.Longitude) IN
    [Name |-> name, Longitude |-> pos.Longitude, Sign |-> z.sign,
     SignDegree |-> z.degrees, Speed |-> pos.SpeedLon,
     Latitude |-> pos.Latitude, Distance |-> pos.Distance,
     SpeedLat |-> pos.SpeedLat, SpeedDistance |-> pos.SpeedDistance]

\* Build, entry: the Result is created with the four inputs
Build_Enter ==
    /\ pc = "Build"
    /\ r' = [EmptyResult EXCEPT !.JulianDay = jd, !.HouseName = hsysName,
                                !.Lat = lat, !.Lon = lon]
    /\ i' = 1
    /\ pc' = "Build_planets"
    /\ UNCHANGED <<entry, jsonFlag, houseSystemFlag, hsys, hsysName, jd, lat,
                   lon, built, err, exitCode, stdout, calls, hsErr>>
    /\ UNCHANGED otherVars

\* Build_Planet with a failed body skipped instead of returned
Build_Planet_skip ==
    /\ pc = "Build_planets"
    /\ i <= Len(planets)
    /\ \E n \in CalcUtResponses :
         LET p == planets[i]
             name == PlanetName(p)
             c == CalcPlanet(n.ret, n.xx)
         IN  /\ calls' = calls \o <<Call("PlanetName", p, TRUE),
                                    NativeCall("CalcPlanet", p, ~c.isErr, n)>>
             /\ IF c.isErr
                THEN /\ i' = i + 1
                     /\ UNCHANGED <<r, built, pc>>
                ELSE /\ r' = [r EXCEPT !.Planets = Append(@, PlanetEntry(name, c.pos))]
                     /\ i' = i + 1
                     /\ UNCHANGED <<built, pc>>
    /\ UNCHANGED <<entry, jsonFlag, houseSystemFlag, hsys, hsysName, jd, lat,
                   lon, err, exitCode, stdout, hsErr>>
    /\ UNCHANGED otherVars

\* Build returning the entries computed so far together with the error
Build_Planet_partial ==
    /\ pc = "Build_planets"
    /\ i <= Len(planets)
    /\ \E n \in CalcUtResponses :
         LET p == planets[i]
             name == PlanetName(p)
             c == CalcPlanet(n.ret, n.xx)
         IN  /\ calls' = calls \o <<Call("PlanetName", p, TRUE),
                                    NativeCall("CalcPlanet", p, ~c.isErr, n)>>
             /\ IF c.isErr
                THEN /\ built' = [r |-> r, err |-> Error("planet", name)]
                     /\ pc' = "Build_returned"
                     /\ UNCHANGED <<r, i>>
                ELSE /\ r' = [r EXCEPT !.Planets = Append(@, PlanetEntry(name, c.pos))]
                     /\ i' = i + 1
                     /\ UNCHANGED <<built, pc>>
    /\ UNCHANGED <<entry, jsonFlag, houseSystemFlag, hsys, hsysName, jd, lat,
                   lon, err, exitCode, stdout, hsErr>>
    /\ UNCHANGED otherVars

\* Build, one iteration of the body loop: PlanetName, CalcPlanet, and either
\* the return of an empty Result with the error or the append of the entry
Build_Planet ==
    /\ pc = "Build_planets"
    /\ i <= Len(planets)
    /\ \E n \in CalcUtResponses :
         LET p == planets[i]
             name == PlanetName(p)
             c == CalcPlanet(n.ret, n.xx)
         IN  /\ calls' = calls \o <<Call("PlanetName", p, TRUE),
                                    NativeCall("CalcPlanet", p, ~c.isErr, n)>>
             /\ IF c.isErr
                THEN /\ built' = [r |-> EmptyResult, err |-> Error("planet", name)]
                     /\ pc' = "Build_returned"
                     /\ UNCHANGED <<r, i>>
                ELSE /\ r' = [r EXCEPT !.Planets = Append(@, PlanetEntry(name, c.pos))]
                     /\ i' = i + 1
                     /\ UNCHANGED <<built, pc>>
    /\ UNCHANGED <<entry, jsonFlag, houseSystemFlag, hsys, hsysName, jd, lat,
                   lon, err, exitCode, stdout, hsErr>>
    /\ UNCHANGED otherVars

\* Build_Houses returning the partly filled Result with the houses error
Build_Houses_partial ==
    /\ pc = "Build_planets"
    /\ i > Len(planets)
    /\ \E n \in HousesResponses :
         LET h == CalcHouses(n.ret, n.cusps, n.ascmc) IN
         /\ calls' = Append(calls, NativeCall("CalcHouses", -1, ~h.isErr, n))
         /\ IF h.isErr
            THEN built' = [r |-> r, err |-> Error("houses", "")]
            ELSE built' =
                   [r |-> [r EXCEPT
                             !.Ascendant = AngleEntry(h.houses.Ascendant),
                             !.MC = AngleEntry(h.houses.MC),
                             !.ARMC = h.houses.ARMC,
                             !.Vertex = AngleEntry(h.houses.Vertex),
                             !.Cusps = [k \in 1..12 |->
                                          CuspEntry(k, h.houses.Cusps[k])]],
                    err |-> NilErr]
    /\ pc' = "Build_returned"
    /\ UNCHANGED <<entry, jsonFlag, houseSystemFlag, hsys, hsysName, jd, lat,
                   lon, i, r, err, exitCode, stdout, hsErr>>
    /\ UNCHANGED otherVars

\* Build with the cusp loop reading the engine array from slot 0
Build_Houses_fromZero ==
    /\ pc = "Build_planets"
    /\ i > Len(planets)
    /\ \E n \in HousesResponses :
         LET h == CalcHouses(n.ret, n.cusps, n.ascmc) IN
         /\ calls' = Append(calls, NativeCall("CalcHouses", -1, ~h.isErr, n))
         /\ IF h.isErr
            THEN built' = [r |-> EmptyResult, err |-> Error("houses", "")]
            ELSE built' =
                   [r |-> [r EXCEPT
                             !.Ascendant = AngleEntry(h.houses.Ascendant),
                             !.MC = AngleEntry(h.houses.MC),
                             !.ARMC = h.houses.ARMC,
                             !.Vertex = AngleEntry(h.houses.Vertex),
                             !.Cusps = [k \in 1..12 |->
                                          CuspEntry(k, h.houses.Cusps[k - 1])]],
                    err |-> NilErr]
    /\ pc' = "Build_returned"
    /\ UNCHANGED <<entry, jsonFlag, houseSystemFlag, hsys, hsysName, jd, lat,
                   lon, i, r, err, exitCode, stdout, hsErr>>
    /\ UNCHANGED otherVars

\* Build, after the loop: CalcHouses, then angles and the twelve cusps
Build_Houses ==
    /\ pc = "Build_planets"
    /\ i > Len(planets)
    /\ \E n \in HousesResponses :
         LET h == CalcHouses(n.ret, n.cusps, n.ascmc) IN
         /\ calls' = Append(calls, NativeCall("CalcHouses", -1, ~h.isErr, n))
         /\ IF h.isErr
            THEN built' = [r |-> EmptyResult, err |-> Error("houses", "")]
            ELSE built' =
                   [r |-> [r EXCEPT
                             !.Ascendant = AngleEntry(h.houses.Ascendant),
                             !.MC = AngleEntry(h.houses.MC),
                             !.ARMC = h.houses.ARMC,
                             !.Vertex = AngleEntry(h.houses.Vertex),
                             !.Cusps = [k \in 1..12 |->
                                          CuspEntry(k, h.houses.Cusps[k])]],
                    err |-> NilErr]
    /\ pc' = "Build_returned"
    /\ UNCHANGED <<entry, jsonFlag, houseSystemFlag, hsys, hsysName, jd, lat,
                   lon, i, r, err, exitCode, stdout, hsErr>>
    /\ UNCHANGED otherVars

-----------------------------------------------------------------------------
(* output: the renderers that cmd.Run calls *)

\* PrintJSON(r): the document handed to json.MarshalIndent and printed
PrintJSON(res) ==
    <<[kind |-> "json",
       doc |-> [julian_day |-> res.JulianDay,
                planets |-> res.Planets,
                houses |-> [system |-> res.HouseName,
                            ascendant |-> res.Ascendant,
                            mc |-> res.MC,
                            cusps |-> res.Cusps]]]>>

TextLine(kind, v) == [kind |-> kind, doc |-> v]

\* PrintText(r): the lines printed, in order
PrintText(res) ==
    <<TextLine("Julian Day", res.JulianDay), TextLine("Planetary Positions", 0)>>
    \o [k \in 1..Len(res.Planets) |->
          TextLine("planet", [Name |-> res.Planets[k].Name,
                              Longitude |-> res.Planets[k].Longitude,
                              Sign |-> res.Planets[k].Sign,
                              SignDegree |-> res.Planets[k].SignDegree,
                              Speed |-> res.Planets[k].Speed])]
    \o <<TextLine("Houses", [system |-> res.HouseName, lat |-> res.Lat,
                             lon |-> res.Lon]),
         TextLine("Ascendant", res.Ascendant),
         TextLine("MC", res.MC),
         TextLine("House cusps", 0)>>
    \o [k \in 1..Len(res.Cusps) |-> TextLine("cusp", res.Cusps[k])]

-----------------------------------------------------------------------------
(* cmd.Run *)

\* texts given to --house-system: placidus, KOCH, Whole-Sign, porphyry
HouseSystemFlags ==
    { n_placidus,
      <<75, 79, 67, 72>>,
      <<87, 104, 111, 108, 101, 45, 83, 105, 103, 110>>,
      <<112, 111, 114, 112, 104, 121, 114, 121>> }

\* Run returns e before the engine was configured: nothing is deferred
ReturnEarly(e) ==
    /\ err' = e
    /\ pc' = "done"

\* fs.Parse: flag values are set; -h returns nil, a bad flag its error
Run_Parse ==
    /\ entry = "Run" /\ pc = "flags"
    /\ \E o \in {"ok", "help", "bad"}, j \in BOOLEAN, h \in HouseSystemFlags :
         /\ jsonFlag' = j
         /\ houseSystemFlag' = h
         /\ CASE o = "ok" -> pc' = "nargs" /\ UNCHANGED err
              [] o = "help" -> ReturnEarly(NilErr)
              [] o = "bad" -> ReturnEarly(Error("flag", ""))
    /\ UNCHANGED <<entry, hsys, hsysName, jd, lat, lon, i, r, built, exitCode,
                   stdout, calls, hsErr>>
    /\ UNCHANGED otherVars

Run_NArg ==
    /\ entry = "Run" /\ pc = "nargs"
    /\ \E n \in {2, 3, 4} :
         IF n # 3
         THEN ReturnEarly(Error("nargs", ""))
         ELSE pc' = "datetime" /\ UNCHANGED err
    /\ UNCHANGED <<entry, jsonFlag, houseSystemFlag, hsys, hsysName, jd, lat,
                   lon, i, r, built, exitCode, stdout, calls, hsErr>>
    /\ UNCHANGED otherVars

Run_Datetime ==
    /\ entry = "Run" /\ pc = "datetime"
    /\ \E ok \in BOOLEAN :
         IF ~ok
         THEN ReturnEarly(Error("datetime", ""))
         ELSE pc' = "lat" /\ UNCHANGED err
    /\ UNCHANGED <<entry, jsonFlag, houseSystemFlag, hsys, hsysName, jd, lat,
                   lon, i, r, built, exitCode, stdout, calls, hsErr>>
    /\ UNCHANGED otherVars

Run_Lat ==
    /\ entry = "Run" /\ pc = "lat"
    /\ \E ok \in BOOLEAN :
         IF ~ok
         THEN ReturnEarly(Error("latitude", "")) /\ UNCHANGED lat
         ELSE pc' = "lon" /\ lat' = 51 /\ UNCHANGED err
    /\ UNCHANGED <<entry, jsonFlag, houseSystemFlag, hsys, hsysName, jd,
                   lon, i, r, built, exitCode, stdout, calls, hsErr>>
    /\ UNCHANGED otherVars

Run_Lon ==
    /\ entry = "Run" /\ pc = "lon"
    /\ \E ok \in BOOLEAN :
         IF ~ok
         THEN ReturnEarly(Error("longitude", "")) /\ UNCHANGED lon
         ELSE pc' = "hsys" /\ lon' = -74 /\ UNCHANGED err
    /\ UNCHANGED <<entry, jsonFlag, houseSystemFlag, hsys, hsysName, jd,
                   lat, i, r, built, exitCode, stdout, calls, hsErr>>
    /\ UNCHANGED otherVars

\* Run_HouseSystem with the engine configured before the name is checked
Run_HouseSystem_late ==
    /\ entry = "Run" /\ pc = "hsys"
    /\ LET h == parseHouseSystem(houseSystemFlag) IN
         /\ hsys' = h.code
         /\ hsysName' = h.displayName
         /\ hsErr' = h.err
         /\ IF h.err.isErr
            THEN ReturnEarly(Error("housesystem", ""))
            ELSE pc' = "exe" /\ UNCHANGED err
    /\ calls' = Append(calls, Call("SetEphePath", -1, TRUE))
    /\ UNCHANGED <<entry, jsonFlag, houseSystemFlag, jd, lat, lon, i, r, built,
                   exitCode, stdout>>
    /\ UNCHANGED otherVars

Run_HouseSystem ==
    /\ entry = "Run" /\ pc = "hsys"
    /\ LET h == parseHouseSystem(houseSystemFlag) IN
         /\ hsys' = h.code
         /\ hsysName' = h.displayName
         /\ hsErr' = h.err
         /\ IF h.err.isErr
            THEN ReturnEarly(Error("housesystem", ""))
            ELSE pc' = "exe" /\ UNCHANGED err
    /\ UNCHANGED <<entry, jsonFlag, houseSystemFlag, jd, lat, lon, i, r, built,
                   exitCode, stdout, calls>>
    /\ UNCHANGED otherVars

Run_Executable ==
    /\ entry = "Run" /\ pc = "exe"
    /\ \E ok \in BOOLEAN :
         IF ~ok
         THEN ReturnEarly(Error("executable", ""))
         ELSE pc' = "ephe" /\ UNCHANGED err
    /\ UNCHANGED <<entry, jsonFlag, houseSystemFlag, hsys, hsysName, jd, lat,
                   lon, i, r, built, exitCode, stdout, calls, hsErr>>
    /\ UNCHANGED otherVars

\* Run going on to JulDay without configuring the data path
Run_SetEphePath_skipped ==
    /\ entry = "Run" /\ pc = "ephe"
    /\ UNCHANGED calls
    /\ pc' = "julday"
    /\ UNCHANGED <<entry, jsonFlag, houseSystemFlag, hsys, hsysName, jd, lat,
                   lon, i, r, built, err, exitCode, stdout, hsErr>>
    /\ UNCHANGED otherVars

\* SetEphePath, and Close is deferred from here on
Run_SetEphePath ==
    /\ entry = "Run" /\ pc = "ephe"
    /\ calls' = Append(calls, Call("SetEphePath", -1, TRUE))
    /\ pc' = "julday"
    /\ UNCHANGED <<entry, jsonFlag, houseSystemFlag, hsys, hsysName, jd, lat,
                   lon, i, r, built, err, exitCode, stdout, hsErr>>
    /\ UNCHANGED otherVars

\* JulDay, the planet list, and the call of output.Build
Run_JulDay ==
    /\ entry = "Run" /\ pc = "julday"
    /\ \E t \in JulDayResponses : jd' = t
    /\ calls' = Append(calls, Call("JulDay", -1, TRUE))
    /\ pc' = "Build"
    /\ UNCHANGED <<entry, jsonFlag, houseSystemFlag, hsys, hsysName, lat,
                   lon, i, r, built, err, exitCode, stdout, hsErr>>
    /\ UNCHANGED otherVars

\* Run rendering what Build had assembled before looking at its error
Run_Render_printsFirst ==
    /\ entry = "Run" /\ pc = "Build_returned"
    /\ IF built.err # NilErr
       THEN /\ err' = built.err
            /\ stdout' = stdout \o (IF jsonFlag THEN PrintJSON(r)
                                                ELSE PrintText(r))
       ELSE /\ err' = NilErr
            /\ stdout' = stdout \o (IF jsonFlag THEN PrintJSON(built.r)
                                                ELSE PrintText(built.r))
    /\ pc' = "deferred"
    /\ UNCHANGED <<entry, jsonFlag, houseSystemFlag, hsys, hsysName, jd, lat,
                   lon, i, r, built, exitCode, calls, hsErr>>
    /\ UNCHANGED otherVars

\* Run dropping the error that Build returned
Run_Render_swallow ==
    /\ entry = "Run" /\ pc = "Build_returned"
    /\ IF built.err # NilErr
       THEN err' = NilErr /\ UNCHANGED stdout
       ELSE /\ err' = NilErr
            /\ stdout' = stdout \o (IF jsonFlag THEN PrintJSON(built.r)
                                                ELSE PrintText(built.r))
    /\ pc' = "deferred"
    /\ UNCHANGED <<entry, jsonFlag, houseSystemFlag, hsys, hsysName, jd, lat,
                   lon, i, r, built, exitCode, calls, hsErr>>
    /\ UNCHANGED otherVars

\* Run after Build: its error is returned, else the Result is rendered;
\* either way Run returns and the deferred Close is due
Run_Render ==
    /\ entry = "Run" /\ pc = "Build_returned"
    /\ IF built.err # NilErr
       THEN err' = built.err /\ UNCHANGED stdout
       ELSE /\ err' = NilErr
            /\ stdout' = stdout \o (IF jsonFlag THEN PrintJSON(built.r)
                                                ELSE PrintText(built.r))
    /\ pc' = "deferred"
    /\ UNCHANGED <<entry, jsonFlag, houseSystemFlag, hsys, hsysName, jd, lat,
                   lon, i, r, built, exitCode, calls, hsErr>>
    /\ UNCHANGED otherVars

\* the deferred swisseph.Close()
Run_Close ==
    /\ entry = "Run" /\ pc = "deferred"
    /\ calls' = Append(calls, Call("Close", -1, TRUE))
    /\ pc' = "done"
    /\ UNCHANGED <<entry, jsonFlag, houseSystemFlag, hsys, hsysName, jd, lat,
                   lon, i, r, built, err, exitCode, stdout, hsErr>>
    /\ UNCHANGED otherVars

-----------------------------------------------------------------------------
(* main.go: the self-contained driver with its own printText / printJSON *)

\* os.Exit(code): the process ends at once; deferred calls do not run
Exit(code) ==
    /\ exitCode' = code
    /\ pc' = "done"

\* flag.Parse on the default flag set exits by itself on -h or a bad flag
main_Parse ==
    /\ entry = "main" /\ pc = "flags"
    /\ \E o \in {"ok", "help", "bad"}, j \in BOOLEAN, h \in HouseSystemFlags :
         /\ jsonFlag' = j
         /\ houseSystemFlag' = h
         /\ CASE o = "ok" -> pc' = "nargs" /\ UNCHANGED exitCode
              [] o = "help" -> Exit(0)
              [] o = "bad" -> Exit(2)
    /\ UNCHANGED <<entry, hsys, hsysName, jd, lat, lon, i, r, built, err,
                   stdout, calls, hsErr>>
    /\ UNCHANGED otherVars

main_NArg ==
    /\ entry = "main" /\ pc = "nargs"
    /\ \E n \in {2, 3, 4} :
         IF n # 3 THEN Exit(1) ELSE pc' = "datetime" /\ UNCHANGED exitCode
    /\ UNCHANGED <<entry, jsonFlag, houseSystemFlag, hsys, hsysName, jd, lat,
                   lon, i, r, built, err, stdout, calls, hsErr>>
    /\ UNCHANGED otherVars

main_Datetime ==
    /\ entry = "main" /\ pc = "datetime"
    /\ \E ok \in BOOLEAN :
         IF ~ok THEN Exit(1) ELSE pc' = "lat" /\ UNCHANGED exitCode
    /\ UNCHANGED <<entry, jsonFlag, houseSystemFlag, hsys, hsysName, jd, lat,
                   lon, i, r, built, err, stdout, calls, hsErr>>
    /\ UNCHANGED otherVars

main_Lat ==
    /\ entry = "main" /\ pc = "lat"
    /\ \E ok \in BOOLEAN :
         IF ~ok THEN Exit(1) /\ UNCHANGED lat
         ELSE pc' = "lon" /\ lat' = 51 /\ UNCHANGED exitCode
    /\ UNCHANGED <<entry, jsonFlag, houseSystemFlag, hsys, hsysName, jd,
                   lon, i, r, built, err, stdout, calls, hsErr>>
    /\ UNCHANGED otherVars

main_Lon ==
    /\ entry = "main" /\ pc = "lon"
    /\ \E ok \in BOOLEAN :
         IF ~ok THEN Exit(1) /\ UNCHANGED lon
         ELSE pc' = "hsys" /\ lon' = -74 /\ UNCHANGED exitCode
    /\ UNCHANGED <<entry, jsonFlag, houseSystemFlag, hsys, hsysName, jd,
                   lat, i, r, built, err, stdout, calls, hsErr>>
    /\ UNCHANGED otherVars

main_HouseSystem ==
    /\ entry = "main" /\ pc = "hsys"
    /\ LET h == main_parseHouseSystem(houseSystemFlag) IN
         /\ hsys' = h.code
         /\ IF h.isErr THEN Exit(1) ELSE pc' = "ephe" /\ UNCHANGED exitCode
    /\ UNCHANGED <<entry, jsonFlag, houseSystemFlag, hsysName, jd, lat, lon, i,
                   r, built, err, stdout, calls, hsErr>>
    /\ UNCHANGED otherVars

\* the error of os.Executable is dropped; SetEphePath; Close is deferred
main_SetEphePath ==
    /\ entry = "main" /\ pc = "ephe"
    /\ calls' = Append(calls, Call("SetEphePath", -1, TRUE))
    /\ pc' = "julday"
    /\ UNCHANGED <<entry, jsonFlag, houseSystemFlag, hsys, hsysName, jd, lat,
                   lon, i, r, built, err, exitCode, stdout, hsErr>>
    /\ UNCHANGED otherVars

\* JulDay, the planet list, and the call of printJSON or printText with the
\* flag's text as the house-system name; each starts its output
main_JulDay ==
    /\ entry = "main" /\ pc = "julday"
    /\ \E t \in JulDayResponses :
         /\ jd' = t
         /\ IF jsonFlag
            THEN /\ r' = [julian_day |-> t, planets |-> <<>>]
                 /\ pc' = "printJSON"
                 /\ UNCHANGED stdout
            ELSE /\ stdout' = stdout \o <<TextLine("Julian Day", t),
                                          TextLine("Planetary Positions", 0)>>
                 /\ pc' = "printText"
                 /\ UNCHANGED r
    /\ calls' = Append(calls, Call("JulDay", -1, TRUE))
    /\ i' = 1
    /\ UNCHANGED <<entry, jsonFlag, houseSystemFlag, hsys, hsysName, lat,
                   lon, built, err, exitCode, hsErr>>
    /\ UNCHANGED otherVars

planetJSON(name, pos) ==
    LET z == ZodiacSign(pos.Longitude) IN
    [Name |-> name, Longitude |-> pos.Longitude, Sign |-> z.sign,
     SignDegree |-> z.degrees, Speed |-> pos.SpeedLon]

\* printText, one iteration of the body loop: a failed body is reported on
\* stderr and skipped, the loop continues
printText_Planet ==
    /\ entry = "main" /\ pc = "printText"
    /\ i <= Len(planets)
    /\ \E n \in CalcUtResponses :
         LET p == planets[i]
             c == CalcPlanet(n.ret, n.xx)
         IN  IF c.isErr
             THEN /\ calls' = calls \o <<NativeCall("CalcPlanet", p, FALSE, n),
                                         Call("PlanetName", p, TRUE)>>
                  /\ UNCHANGED stdout
             ELSE /\ calls' = calls \o <<NativeCall("CalcPlanet", p, TRUE, n),
                                         Call("PlanetName", p, TRUE)>>
                  /\ stdout' = Append(stdout,
                        TextLine("planet", planetJSON(PlanetName(p), c.pos)))
    /\ i' = i + 1
    /\ UNCHANGED <<entry, pc, jsonFlag, houseSystemFlag, hsys, hsysName, jd,
                   lat, lon, r, built, err, exitCode, hsErr>>
    /\ UNCHANGED otherVars

\* printText after the loop: the houses header, CalcHouses, and either
\* os.Exit(1) or the angles and cusps; then main returns
printText_Houses ==
    /\ entry = "main" /\ pc = "printText"
    /\ i > Len(planets)
    /\ \E n \in HousesResponses :
         LET h == CalcHouses(n.ret, n.cusps, n.ascmc)
             head == <<TextLine("Houses", [system |-> houseSystemFlag,
                                           lat |-> lat, lon |-> lon])>>
         IN  /\ calls' = Append(calls, NativeCall("CalcHouses", -1, ~h.isErr, n))
             /\ IF h.isErr
                THEN /\ stdout' = stdout \o head
                     /\ Exit(1)
                ELSE /\ stdout' = stdout \o head
                          \o <<TextLine("Ascendant", AngleEntry(h.houses.Ascendant)),
                               TextLine("MC", AngleEntry(h.houses.MC)),
                               TextLine("House cusps", 0)>>
                          \o [k \in 1..12 |->
                                TextLine("cusp", CuspEntry(k, h.houses.Cusps[k]))]
                     /\ pc' = "deferred"
                     /\ UNCHANGED exitCode
    /\ UNCHANGED <<entry, jsonFlag, houseSystemFlag, hsys, hsysName, jd, lat,
                   lon, i, r, built, err, hsErr>>
    /\ UNCHANGED otherVars

\* printJSON, one iteration of the body loop: a failed body ends the process
printJSON_Planet ==
    /\ entry = "main" /\ pc = "printJSON"
    /\ i <= Len(planets)
    /\ \E n \in CalcUtResponses :
         LET p == planets[i]
             c == CalcPlanet(n.ret, n.xx)
         IN  IF c.isErr
             THEN /\ calls' = calls \o <<NativeCall("CalcPlanet", p, FALSE, n),
                                         Call("PlanetName", p, TRUE)>>
                  /\ Exit(1)
                  /\ UNCHANGED <<r, i>>
             ELSE /\ calls' = calls \o <<NativeCall("CalcPlanet", p, TRUE, n),
                                         Call("PlanetName", p, TRUE)>>
                  /\ r' = [r EXCEPT !.planets =
                             Append(@, planetJSON(PlanetName(p), c.pos))]
                  /\ i' = i + 1
                  /\ UNCHANGED <<pc, exitCode>>
    /\ UNCHANGED <<entry, jsonFlag, houseSystemFlag, hsys, hsysName, jd, lat,
                   lon, built, err, stdout, hsErr>>
    /\ UNCHANGED otherVars

\* printJSON after the loop: CalcHouses, and either os.Exit(1) or the whole
\* document marshalled and printed; then main returns
printJSON_Houses ==
    /\ entry = "main" /\ pc = "printJSON"
    /\ i > Len(planets)
    /\ \E n \in HousesResponses :
         LET h == CalcHouses(n.ret, n.cusps, n.ascmc) IN
         /\ calls' = Append(calls, NativeCall("CalcHouses", -1, ~h.isErr, n))
         /\ IF h.isErr
            THEN /\ Exit(1)
                 /\ UNCHANGED stdout
            ELSE /\ stdout' = Append(stdout,
                      [kind |-> "json",
                       doc |-> [julian_day |-> r.julian_day,
                                planets |-> r.planets,
                                houses |->
                                  [system |-> houseSystemFlag,
                                   ascendant |-> AngleEntry(h.houses.Ascendant),
                                   mc |-> AngleEntry(h.houses.MC),
                                   cusps |-> [k \in 1..12 |->
                                      CuspEntry(k, h.houses.Cusps[k])]]]])
                 /\ pc' = "deferred"
                 /\ UNCHANGED exitCode
    /\ UNCHANGED <<entry, jsonFlag, houseSystemFlag, hsys, hsysName, jd, lat,
                   lon, i, r, built, err, hsErr>>
    /\ UNCHANGED otherVars

\* main returns: the deferred swisseph.Close() runs and the process exits 0
main_Close ==
    /\ entry = "main" /\ pc = "deferred"
    /\ calls' = Append(calls, Call("Close", -1, TRUE))
    /\ Exit(0)
    /\ UNCHANGED <<entry, jsonFlag, houseSystemFlag, hsys, hsysName, jd, lat,
                   lon, i, r, built, err, stdout, hsErr>>
    /\ UNCHANGED otherVars

-----------------------------------------------------------------------------
(* The program: one run of either driver *)

InitProgram ==
    /\ entry \in {"Run", "main"}
    /\ pc = "flags"
    /\ jsonFlag = FALSE
    /\ houseSystemFlag = n_placidus
    /\ hsys = 0
    /\ hsysName = ""
    /\ jd = 0 /\ lat = 0 /\ lon = 0
    /\ i = 0
    /\ r = EmptyResult
    /\ built = NotBuilt
    /\ err = Running
    /\ exitCode = -1
    /\ stdout = <<>>
    /\ calls = <<>>

Init ==
    /\ InitProgram
    /\ mu = 0 /\ cpc = <<>> /\ cop = <<>>
    /\ base = <<>> /\ hsErr = NoError
    /\ longitude = 0 /\ zodiac = [sign |-> "", degrees |-> 0]
    /\ verbose = FALSE /\ ci = <<>>

Next ==
    \/ Run_Parse \/ Run_NArg \/ Run_Datetime \/ Run_Lat \/ Run_Lon
    \/ Run_HouseSystem \/ Run_Executable \/ Run_SetEphePath \/ Run_JulDay
    \/ Build_Enter \/ Build_Planet \/ Build_Houses
    \/ Run_Render \/ Run_Close
    \/ main_Parse \/ main_NArg \/ main_Datetime \/ main_Lat \/ main_Lon
    \/ main_HouseSystem \/ main_SetEphePath \/ main_JulDay
    \/ printText_Planet \/ printText_Houses
    \/ printJSON_Planet \/ printJSON_Houses \/ main_Close

Spec == Init /\ [][Next]_vars

-----------------------------------------------------------------------------
(* output: the renderers with the verbosity toggle, and a run of cmd.Run    *)
(* that hands them the toggle                                               *)

\* planetJSON as the two-argument PrintJSON fills it: the four pointer
\* fields are set only when verbose, and omitted from the document otherwise
planetEntryJSON(p, v) ==
    IF v
    THEN [name |-> p.Name, longitude |-> p.Longitude, sign |-> p.Sign,
          sign_degree |-> p.SignDegree, speed |-> p.Speed,
          latitude |-> p.Latitude, distance |-> p.Distance,
          speed_lat |-> p.SpeedLat, speed_distance |-> p.SpeedDistance]
    ELSE [name |-> p.Name, longitude |-> p.Longitude, sign |-> p.Sign,
          sign_degree |-> p.SignDegree, speed |-> p.Speed]

\* housesJSON: armc and vertex only when verbose
housesEntryJSON(res, v) ==
    IF v
    THEN [system |-> res.HouseName, ascendant |-> res.Ascendant,
          mc |-> res.MC, armc |-> res.ARMC, vertex |-> res.Vertex,
          cusps |-> res.Cusps]
    ELSE [system |-> res.HouseName, ascendant |-> res.Ascendant,
          mc |-> res.MC, cusps |-> res.Cusps]

\* a renderer's effect: what it wrote, and the elements of the two slices of
\* the Result (shared with the caller) as the call left them
Rendering(out, res) == [out |-> out, Planets |-> res.Planets, Cusps |-> res.Cusps]

\* PrintJSON(r, verbose) with its loop writing into the caller's slices
PrintJSONVerbose_inPlace(res, v) ==
    [out |-> <<[kind |-> "json",
                doc |-> [julian_day |-> res.JulianDay,
                         planets |-> [k \in 1..Len(res.Planets) |->
                                        planetEntryJSON(res.Planets[k], v)],
                         houses |-> housesEntryJSON(res, v)]]>>,
     Planets |-> [k \in 1..Len(res.Planets) |->
                    [res.Planets[k] EXCEPT !.Latitude = 0, !.Distance = 0]],
     Cusps |-> res.Cusps]

\* PrintJSON(r, verbose): one document, built from copies of the entries
PrintJSONVerbose(res, v) ==
    Rendering(<<[kind |-> "json",
                 doc |-> [julian_day |-> res.JulianDay,
                          planets |-> [k \in 1..Len(res.Planets) |->
                                         planetEntryJSON(res.Planets[k], v)],
                          houses |-> housesEntryJSON(res, v)]]>>,
              res)

\* the lines PrintText(r, verbose) prints for one body
PlanetLines(p, v) ==
    <<TextLine("planet", [Name |-> p.Name, Longitude |-> p.Longitude,
                          Sign |-> p.Sign, SignDegree |-> p.SignDegree,
                          Speed |-> p.Speed])>>
    \o (IF v THEN <<TextLine("planet_raw",
                             [Latitude |-> p.Latitude, Distance |-> p.Distance,
                              SpeedLat |-> p.SpeedLat,
                              SpeedDistance |-> p.SpeedDistance])>>
             ELSE <<>>)

RECURSIVE PlanetBlock(_, _, _)
PlanetBlock(ps, k, v) ==
    IF k > Len(ps) THEN <<>> ELSE PlanetLines(ps[k], v) \o PlanetBlock(ps, k + 1, v)

\* PrintText(r, verbose): the lines printed, in order
PrintTextVerbose(res, v) ==
    Rendering(
      <<TextLine("Julian Day", res.JulianDay), TextLine("Planetary Positions", 0)>>
      \o PlanetBlock(res.Planets, 1, v)
      \o <<TextLine("Houses", [system |-> res.HouseName, lat |-> res.Lat,
                               lon |-> res.Lon]),
           TextLine("Ascendant", res.Ascendant),
           TextLine("MC", res.MC)>>
      \o (IF v THEN <<TextLine("ARMC", res.ARMC), TextLine("Vertex", res.Vertex)>>
               ELSE <<>>)
      \o <<TextLine("House cusps", 0)>>
      \o [k \in 1..Len(res.Cusps) |-> TextLine("cusp", res.Cusps[k])],
      res)

\* Run after Build, handing the verbosity toggle to the renderer
Run_RenderVerbose ==
    /\ entry = "Run" /\ pc = "Build_returned"
    /\ IF built.err # NilErr
       THEN err' = built.err /\ UNCHANGED <<stdout, built>>
       ELSE LET p == IF jsonFlag THEN PrintJSONVerbose(built.r, verbose)
                                 ELSE PrintTextVerbose(built.r, verbose) IN
            /\ err' = NilErr
            /\ stdout' = stdout \o p.out
            /\ built' = [built EXCEPT !.r.Planets = p.Planets,
                                      !.r.Cusps = p.Cusps]
    /\ pc' = "deferred"
    /\ UNCHANGED <<entry, jsonFlag, houseSystemFlag, hsys, hsysName, jd, lat,
                   lon, i, r, exitCode, calls, hsErr>>
    /\ UNCHANGED otherVars

InitVerbose ==
    /\ InitProgram
    /\ entry = "Run"
    /\ verbose \in BOOLEAN
    /\ mu = 0 /\ cpc = <<>> /\ cop = <<>>
    /\ base = <<>> /\ hsErr = NoError
    /\ longitude = 0 /\ zodiac = [sign |-> "", degrees |-> 0]
    /\ ci = <<>>

NextVerbose ==
    \/ Run_Parse \/ Run_NArg \/ Run_Datetime \/ Run_Lat \/ Run_Lon
    \/ Run_HouseSystem \/ Run_Executable \/ Run_SetEphePath \/ Run_JulDay
    \/ Build_Enter \/ Build_Planet \/ Build_Houses
    \/ Run_RenderVerbose \/ Run_Close

SpecVerbose == InitVerbose /\ [][NextVerbose]_vars

-----------------------------------------------------------------------------
(* swisseph: the mutex around the native calls, with concurrent callers *)

Callers == 1..NumCallers

AdapterOps == {"SetEphePath", "Close", "PlanetName", "JulDay", "CalcPlanet",
               "CalcHouses"}

\* Close without the mutex
LockingOps_CloseUnlocked == {"SetEphePath", "CalcPlanet", "CalcHouses"}

\* the adapter functions whose body calls mu.Lock() before the native call
\* and mu.Unlock() after it; PlanetName and JulDay call the engine directly
LockingOps == {"SetEphePath", "Close", "CalcPlanet", "CalcHouses"}

\* a caller enters an adapter function
a_Call(c) ==
    /\ cpc[c] = "idle"
    /\ \E op \in AdapterOps :
         /\ cop' = [cop EXCEPT ![c] = op]
         /\ cpc' = [cpc EXCEPT ![c] = "entered"]
    /\ UNCHANGED mu
    /\ UNCHANGED <<progVars, resolveVars, zodiacVars, verbose, ci>>

\* mu.Lock() returns and the native call begins
a_Lock(c) ==
    /\ cpc[c] = "entered"
    /\ cop[c] \in LockingOps
    /\ mu = 0
    /\ mu' = c
    /\ cpc' = [cpc EXCEPT ![c] = "native"]
    /\ UNCHANGED cop
    /\ UNCHANGED <<progVars, resolveVars, zodiacVars, verbose, ci>>

\* the native call begins with no lock taken
a_NativeUnlocked(c) ==
    /\ cpc[c] = "entered"
    /\ cop[c] \notin LockingOps
    /\ cpc' = [cpc EXCEPT ![c] = "native"]
    /\ UNCHANGED <<mu, cop>>
    /\ UNCHANGED <<progVars, resolveVars, zodiacVars, verbose, ci>>

\* the native call returns; on a negative status the function takes its
\* error return with the mutex still locked
a_NativeReturn_errorPath(c) ==
    /\ cpc[c] = "native"
    /\ \E ret \in {-1, 0} :
         cpc' = [cpc EXCEPT ![c] = IF cop[c] \in LockingOps /\ ret >= 0
                                    THEN "unlock" ELSE "return"]
    /\ UNCHANGED <<mu, cop>>
    /\ UNCHANGED <<progVars, resolveVars, zodiacVars, verbose, ci>>

\* the native call returns, with whatever status
a_NativeReturn(c) ==
    /\ cpc[c] = "native"
    /\ cpc' = [cpc EXCEPT ![c] = IF cop[c] \in LockingOps THEN "unlock"
                                                          ELSE "return"]
    /\ UNCHANGED <<mu, cop>>
    /\ UNCHANGED <<progVars, resolveVars, zodiacVars, verbose, ci>>

\* the function returning with the mutex still locked
a_Unlock_kept(c) ==
    /\ cpc[c] = "unlock"
    /\ mu' = mu
    /\ cpc' = [cpc EXCEPT ![c] = "return"]
    /\ UNCHANGED cop
    /\ UNCHANGED <<progVars, resolveVars, zodiacVars, verbose, ci>>

\* mu.Unlock(), inline or deferred
a_Unlock(c) ==
    /\ cpc[c] = "unlock"
    /\ mu' = 0
    /\ cpc' = [cpc EXCEPT ![c] = "return"]
    /\ UNCHANGED cop
    /\ UNCHANGED <<progVars, resolveVars, zodiacVars, verbose, ci>>

\* the adapter function returns to its caller
a_Return(c) ==
    /\ cpc[c] = "return"
    /\ cpc' = [cpc EXCEPT ![c] = "idle"]
    /\ cop' = [cop EXCEPT ![c] = "none"]
    /\ UNCHANGED mu
    /\ UNCHANGED <<progVars, resolveVars, zodiacVars, verbose, ci>>

IdleProgram ==
    /\ entry = "none"
    /\ pc = "idle"
    /\ jsonFlag = FALSE
    /\ houseSystemFlag = <<>>
    /\ hsys = 0
    /\ hsysName = ""
    /\ jd = 0 /\ lat = 0 /\ lon = 0
    /\ i = 0
    /\ r = EmptyResult
    /\ built = NotBuilt
    /\ err = Running
    /\ exitCode = -1
    /\ stdout = <<>>
    /\ calls = <<>>

IdleZodiac == longitude = 0 /\ zodiac = [sign |-> "", degrees |-> 0]

InitAdapter ==
    /\ mu = 0
    /\ cpc = [c \in Callers |-> "idle"]
    /\ cop = [c \in Callers |-> "none"]
    /\ IdleProgram
    /\ base = <<>> /\ hsErr = NoError
    /\ IdleZodiac
    /\ verbose = FALSE /\ ci = <<>>

NextAdapter ==
    \E c \in Callers :
        \/ a_Call(c) \/ a_Lock(c) \/ a_NativeUnlocked(c)
        \/ a_NativeReturn(c) \/ a_Unlock(c) \/ a_Return(c)

SpecAdapter == InitAdapter /\ [][NextAdapter]_vars

-----------------------------------------------------------------------------
(* output.Build called concurrently: each caller runs Build's sequence of   *)
(* adapter calls (PlanetName and CalcPlanet per body, then CalcHouses)      *)
(* through the same mutex, with Build's own code in between                 *)

\* the planets argument of the concurrent Build calls: the first bodies of
\* the default list
buildPlanets == SubSeq(planets, 1, NumBodies)

\* Build goes on to its next adapter call: after a CalcPlanet that succeeded
\* it first runs ZodiacSign and appends the entry, then takes the next body
\* or, the list exhausted, CalcHouses
b_Call(c) ==
    /\ cpc[c] = "logic"
    /\ cop[c] # "CalcHouses"
    /\ LET k == IF cop[c] = "CalcPlanet" THEN ci[c] + 1 ELSE ci[c]
           op == CASE cop[c] = "PlanetName" -> "CalcPlanet"
                   [] k <= Len(buildPlanets) -> "PlanetName"
                   [] OTHER -> "CalcHouses" IN
         /\ ci' = [ci EXCEPT ![c] = k]
         /\ cop' = [cop EXCEPT ![c] = op]
    /\ cpc' = [cpc EXCEPT ![c] = "entered"]
    /\ UNCHANGED mu
    /\ UNCHANGED <<progVars, resolveVars, zodiacVars, verbose>>

\* the adapter function returns to Build: PlanetName its name, CalcPlanet
\* and CalcHouses a value or, the native status negative, an error
b_Return(c) ==
    /\ cpc[c] = "return"
    /\ \E ok \in BOOLEAN :
         cpc' = [cpc EXCEPT ![c] = IF ok \/ cop[c] = "PlanetName"
                                    THEN "logic" ELSE "wrap"]
    /\ UNCHANGED <<mu, cop, ci>>
    /\ UNCHANGED <<progVars, resolveVars, zodiacVars, verbose>>

\* Build wraps the adapter's error and returns it with an empty Result
b_Fail(c) ==
    /\ cpc[c] = "wrap"
    /\ cpc' = [cpc EXCEPT ![c] = "returned"]
    /\ UNCHANGED <<mu, cop, ci>>
    /\ UNCHANGED <<progVars, resolveVars, zodiacVars, verbose>>

\* Build after CalcHouses: the angles and the twelve cusps, then the return
b_Finish(c) ==
    /\ cpc[c] = "logic"
    /\ cop[c] = "CalcHouses"
    /\ cpc' = [cpc EXCEPT ![c] = "returned"]
    /\ UNCHANGED <<mu, cop, ci>>
    /\ UNCHANGED <<progVars, resolveVars, zodiacVars, verbose>>

InitBuild ==
    /\ mu = 0
    /\ cpc = [c \in Callers |-> "logic"]
    /\ cop = [c \in Callers |-> "none"]
    /\ ci = [c \in Callers |-> 1]
    /\ IdleProgram
    /\ base = <<>> /\ hsErr = NoError
    /\ IdleZodiac
    /\ verbose = FALSE

NextBuild ==
    \E c \in Callers :
        \/ b_Call(c) \/ a_Lock(c) \/ a_NativeUnlocked(c)
        \/ a_NativeReturn(c) \/ a_Unlock(c) \/ b_Return(c)
        \/ b_Fail(c) \/ b_Finish(c)

SpecBuild == InitBuild /\ [][NextBuild]_vars

\* the Go scheduler runs every goroutine that can take a step, and a native
\* call that was entered returns: each step of each caller is weakly fair
FairBuild ==
    \A c \in Callers :
       /\ WF_vars(b_Call(c))
       /\ WF_vars(a_Lock(c))
       /\ WF_vars(a_NativeUnlocked(c))
       /\ WF_vars(a_NativeReturn(c))
       /\ WF_vars(a_Unlock(c))
       /\ WF_vars(b_Return(c))
       /\ WF_vars(b_Fail(c))
       /\ WF_vars(b_Finish(c))

SpecBuildFair == SpecBuild /\ FairBuild

-----------------------------------------------------------------------------
(* The resolver on its own: a text is typed rune by rune, then resolved *)

\* the texts typed, each in every mix of the runes that may stand for its
\* letters: the six names, "porphyry", "unknown", "Whole Sign", " koch",
\* "koch " and "kochs"
ResolveBases ==
    { n_placidus, n_koch, n_whole_sign, n_regiomontanus, n_equal, n_campanus,
      <<112, 111, 114, 112, 104, 121, 114, 121>>,
      <<117, 110, 107, 110, 111, 119, 110>>,
      <<87, 104, 111, 108, 101, 32, 83, 105, 103, 110>>,
      <<32, 107, 111, 99, 104>>,
      <<107, 111, 99, 104, 32>>,
      <<107, 111, 99, 104, 115>> }

\* the runes typed for a rune of the text: the rune, its other ASCII case,
\* and for k or K also U+212A KELVIN SIGN
RuneVariants(c) ==
    {c}
    \cup (IF c >= 97 /\ c <= 122 THEN {c - 32} ELSE {})
    \cup (IF c >= 65 /\ c <= 90 THEN {c + 32} ELSE {})
    \cup (IF c \in {75, 107} THEN {8490} ELSE {})

res_Type ==
    /\ pc = "typing"
    /\ Len(houseSystemFlag) < Len(base)
    /\ \E c \in RuneVariants(base[Len(houseSystemFlag) + 1]) :
         houseSystemFlag' = Append(houseSystemFlag, c)
    /\ UNCHANGED <<entry, pc, jsonFlag, hsys, hsysName, jd, lat, lon, i, r,
                   built, err, exitCode, stdout, calls, base, hsErr>>
    /\ UNCHANGED <<concVars, zodiacVars, verbose, ci>>

\* parseHouseSystem is applied to what was typed so far
res_Resolve ==
    /\ pc = "typing"
    /\ LET h == parseHouseSystem(houseSystemFlag) IN
         /\ hsys' = h.code
         /\ hsysName' = h.displayName
         /\ hsErr' = h.err
    /\ pc' = "resolved"
    /\ UNCHANGED <<entry, jsonFlag, houseSystemFlag, jd, lat, lon, i, r,
                   built, err, exitCode, stdout, calls, base>>
    /\ UNCHANGED <<concVars, zodiacVars, verbose, ci>>

InitResolve ==
    /\ base \in ResolveBases
    /\ hsErr = NoError
    /\ entry = "none"
    /\ pc = "typing"
    /\ jsonFlag = FALSE
    /\ houseSystemFlag = <<>>
    /\ hsys = 0
    /\ hsysName = ""
    /\ jd = 0 /\ lat = 0 /\ lon = 0
    /\ i = 0
    /\ r = EmptyResult
    /\ built = NotBuilt
    /\ err = Running
    /\ exitCode = -1
    /\ stdout = <<>>
    /\ calls = <<>>
    /\ mu = 0 /\ cpc = <<>> /\ cop = <<>>
    /\ IdleZodiac
    /\ verbose = FALSE /\ ci = <<>>

NextResolve == res_Type \/ res_Resolve

SpecResolve == InitResolve /\ [][NextResolve]_vars

-----------------------------------------------------------------------------
(* The zodiac mapper on its own *)

\* the longitudes mapped: every grid point from -1 degree to 361 degrees
ZodiacInputs == (-Deg(1))..Deg(361)

z_Pick ==
    /\ pc = "pick"
    /\ \E l \in ZodiacInputs : longitude' = l
    /\ pc' = "map"
    /\ UNCHANGED <<entry, jsonFlag, houseSystemFlag, hsys, hsysName, jd, lat,
                   lon, i, r, built, err, exitCode, stdout, calls, zodiac>>
    /\ UNCHANGED <<concVars, resolveVars, verbose, ci>>

z_Map ==
    /\ pc = "map"
    /\ zodiac' = ZodiacSign(longitude)
    /\ pc' = "mapped"
    /\ UNCHANGED <<entry, jsonFlag, houseSystemFlag, hsys, hsysName, jd, lat,
                   lon, i, r, built, err, exitCode, stdout, calls, longitude>>
    /\ UNCHANGED <<concVars, resolveVars, verbose, ci>>

InitZodiac ==
    /\ IdleZodiac
    /\ entry = "none"
    /\ pc = "pick"
    /\ jsonFlag = FALSE
    /\ houseSystemFlag = <<>>
    /\ hsys = 0
    /\ hsysName = ""
    /\ jd = 0 /\ lat = 0 /\ lon = 0
    /\ i = 0
    /\ r = EmptyResult
    /\ built = NotBuilt
    /\ err = Running
    /\ exitCode = -1
    /\ stdout = <<>>
    /\ calls = <<>>
    /\ mu = 0 /\ cpc = <<>> /\ cop = <<>>
    /\ base = <<>> /\ hsErr = NoError
    /\ verbose = FALSE /\ ci = <<>>

NextZodiac == z_Pick \/ z_Map

SpecZodiac == InitZodiac /\ [][NextZodiac]_vars

-----------------------------------------------------------------------------
(* Observations on the call log *)

CallIdx(op) == {k \in 1..Len(calls) : calls[k].op = op}
CallsOf(op) == Cardinality(CallIdx(op))
FailedBodies == {calls[k].planet : k \in {j \in CallIdx("CalcPlanet") : ~calls[j].ok}}
CalcHousesFailed == \E k \in CallIdx("CalcHouses") : ~calls[k].ok
EngineConfigured == CallsOf("SetEphePath") > 0
Done == pc = "done"

\* the body lines / entries that reached standard output
PrintedBodies ==
    {stdout[k].doc.Name : k \in {j \in 1..Len(stdout) : stdout[j].kind = "planet"}}

-----------------------------------------------------------------------------
(* C3 -- the failure policy for per-body failures is chosen by the caller:  *)
(* interactive (text) output asks for skip-and-continue, so a failed body   *)
(* is omitted while every later body and the houses are still calculated;   *)
(* structured (JSON) output asks for abort-on-first-error, so the first     *)
(* failed body ends the run with no output.                                 *)
C3_FailurePolicyHonoured ==
    (Done /\ EngineConfigured /\ FailedBodies # {}) =>
        IF jsonFlag
        THEN stdout = <<>> /\ CallsOf("CalcPlanet") < Len(planets) + 1
                           /\ Cardinality(FailedBodies) = 1
                           /\ CallsOf("CalcHouses") = 0
        ELSE /\ CallsOf("CalcPlanet") = Len(planets)
             /\ CallsOf("CalcHouses") = 1
             /\ PrintedBodies \cap {PlanetName(p) : p \in FailedBodies} = {}

-----------------------------------------------------------------------------
(* C4 -- as claimed: every invocation of Build performs exactly one         *)
(* CalcHouses call, whatever the outcome of the per-body calculations.      *)
C4_ExactlyOneCalcHouses ==
    pc = "Build_returned" => CallsOf("CalcHouses") = 1

(* C4 -- amended: every invocation of Build performs at most one CalcHouses *)
(* call: exactly one when every CalcPlanet call succeeded, and none when a  *)
(* CalcPlanet call failed, because Build returns at that failure.           *)
C4_CalcHousesOnceUnlessBodyFailed ==
    /\ entry = "Run" => CallsOf("CalcHouses") <= 1
    /\ pc = "Build_returned" =>
          CallsOf("CalcHouses") = (IF FailedBodies = {} THEN 1 ELSE 0)

C4_Witness ==
    /\ pc = "Build_returned"
    /\ FailedBodies = {}
    /\ CallsOf("CalcPlanet") = Len(planets)
    /\ CallsOf("CalcHouses") = 1

-----------------------------------------------------------------------------
(* C5 -- a CalcHouses failure is fatal: Build returns an error together     *)
(* with an empty Result (no body entries, no angles, no cusps) however many *)
(* bodies were calculated; and no Result returned by Build carries body     *)
(* entries without all angles and twelve cusps.                             *)
C5_HousesFailureFatal ==
    /\ (pc = "Build_returned" /\ CalcHousesFailed) =>
          /\ built.err.kind = "houses"
          /\ built.r = EmptyResult
    /\ built.r.Planets # <<>> =>
          /\ built.err = NilErr
          /\ Len(built.r.Cusps) = 12
          /\ built.r.Ascendant.Sign # ""
          /\ built.r.MC.Sign # ""
          /\ built.r.Vertex.Sign # ""

C5_Witness ==
    /\ pc = "Build_returned"
    /\ CalcHousesFailed
    /\ Len(r.Planets) = Len(planets)
    /\ built.r = EmptyResult
    /\ built.err.kind = "houses"

-----------------------------------------------------------------------------
(* C6 -- every execution that configures the engine calls Close exactly     *)
(* once, on every exit path including the engine-failure paths, and calls   *)
(* no other adapter operation after it.                                     *)
C6_CloseExactlyOnceLast ==
    /\ (Done /\ EngineConfigured) =>
          /\ CallsOf("Close") = 1
          /\ calls[Len(calls)].op = "Close"
    /\ \A k \in CallIdx("Close") : k = Len(calls)

-----------------------------------------------------------------------------
(* C7 -- a wrong argument count, a malformed datetime, latitude or          *)
(* longitude, or an unknown house system ends the run before any engine     *)
(* operation has been called.                                               *)
ArgumentErrors == {"nargs", "datetime", "latitude", "longitude", "housesystem"}

\* C7: a run that ends with an argument error has made no engine call
C7_ArgumentErrorsBeforeEngine ==
    /\ pc \in {"flags", "nargs", "datetime", "lat", "lon", "hsys"} => calls = <<>>
    /\ (Done /\ err.kind \in ArgumentErrors) => calls = <<>>
    /\ (Done /\ hsys = 0) => calls = <<>>

C7_Witness ==
    /\ Done
    /\ entry = "Run"
    /\ err.kind = "housesystem"
    /\ hsErr.isErr
    /\ calls = <<>>

-----------------------------------------------------------------------------
(* Observations on the concurrent callers *)

InNative(c) == cpc[c] = "native"
MutexOps == {"SetEphePath", "PlanetName", "CalcPlanet", "CalcHouses", "Close"}

-----------------------------------------------------------------------------
(* C1 -- with concurrent callers of SetEphePath, PlanetName, CalcPlanet,    *)
(* CalcHouses and Close, no two native engine calls are in progress at the  *)
(* same time (each of the five would hold the mutex for its native call).   *)
C1_NativeCallsSerialized ==
    \A c, d \in Callers :
        (c # d /\ cop[c] \in MutexOps /\ cop[d] \in MutexOps)
           => ~(InNative(c) /\ InNative(d))

-----------------------------------------------------------------------------
(* C2 -- the native release of Close never runs while a CalcPlanet or       *)
(* CalcHouses native call of another caller is in flight, and none of those *)
(* starts while the release is in progress.                                 *)
C2_CloseExcludesCalculation ==
    \A c, d \in Callers :
        ~(/\ c # d
          /\ InNative(c) /\ cop[c] = "Close"
          /\ InNative(d) /\ cop[d] \in {"CalcPlanet", "CalcHouses"})

\* Close is releasing while a calculation waits for the mutex, and the other
\* way round
C2_Witness ==
    \E c, d \in Callers :
        /\ c # d
        /\ InNative(c) /\ cop[c] = "Close" /\ mu = c
        /\ cpc[d] = "entered" /\ cop[d] \in {"CalcPlanet", "CalcHouses"}

-----------------------------------------------------------------------------
(* The documented resolver table *)

\* only A-Z are lowercased
AsciiLower(s) ==
    [k \in 1..Len(s) |-> IF s[k] >= 65 /\ s[k] <= 90 THEN s[k] + 32 ELSE s[k]]

Documented ==
    { <<n_placidus, 80, "Placidus">>,
      <<n_koch, 75, "Koch">>,
      <<n_whole_sign, 87, "Whole Sign">>,
      <<n_regiomontanus, 82, "Regiomontanus">>,
      <<n_equal, 65, "Equal">>,
      <<n_campanus, 67, "Campanus">> }

Recognized(s) == \E d \in Documented : AsciiLower(s) = d[1]
Resolved == pc = "resolved"

-----------------------------------------------------------------------------
(* C8 -- each of the six recognized names, in any mix of ASCII upper and    *)
(* lower case, resolves without error to its documented code and display    *)
(* name, and the six codes are pairwise distinct.                           *)
C8_RecognizedNamesResolve ==
    /\ Resolved =>
          \A d \in Documented :
             AsciiLower(houseSystemFlag) = d[1] =>
                /\ ~hsErr.isErr
                /\ hsys = d[2]
                /\ hsysName = d[3]
                /\ main_parseHouseSystem(houseSystemFlag) = [code |-> d[2], isErr |-> FALSE]
    /\ Cardinality({HousePlacidus, HouseKoch, HouseWholeSign,
                    HouseRegiomontanus, HouseEqual, HouseCampanus}) = 6

\* "Whole-Sign" typed with capitals resolved to ('W', "Whole Sign")
C8_Witness ==
    /\ Resolved
    /\ houseSystemFlag = <<87, 104, 111, 108, 101, 45, 83, 105, 103, 110>>
    /\ hsys = 87
    /\ hsysName = "Whole Sign"
    /\ ~hsErr.isErr

-----------------------------------------------------------------------------
(* C9 -- the resolver succeeds exactly when the input, with only A-Z        *)
(* lowercased and no other character folded, is one of the six names; every *)
(* other text fails with code 0, an empty display name and an error that    *)
(* carries the input and lists exactly the six valid names.                 *)
C9_OnlyAsciiFoldingAccepted ==
    Resolved =>
        /\ ~hsErr.isErr <=> Recognized(houseSystemFlag)
        /\ hsErr.isErr =>
              /\ hsys = 0
              /\ hsysName = ""
              /\ hsErr.input = houseSystemFlag
              /\ hsErr.valid = <<n_placidus, n_koch, n_whole_sign,
                                 n_regiomontanus, n_equal, n_campanus>>

-----------------------------------------------------------------------------
(* C10 -- for a longitude L in [0,360) ZodiacSign returns the sign number   *)
(* floor(L/30) of the order Aries..Pisces and the degree L - 30*floor(L/30),*)
(* which lies in [0,30); for L = 360 it returns ("Pisces", 30); in every    *)
(* case 30 * index(sign) + degree = L.                                      *)
ZodiacOrder == <<"Aries", "Taurus", "Gemini", "Cancer", "Leo", "Virgo",
                 "Libra", "Scorpio", "Sagittarius", "Capricorn", "Aquarius",
                 "Pisces">>

SignIndex(name) == CHOOSE k \in 0..11 : ZodiacOrder[k + 1] = name

\* C10: ZodiacSign maps a longitude to its sign and the degree within it
C10_ZodiacMapping ==
    (pc = "mapped" /\ longitude >= 0 /\ longitude <= Deg(360)) =>
        /\ zodiac.sign \in {ZodiacOrder[k] : k \in 1..12}
        /\ Deg(30) * SignIndex(zodiac.sign) + zodiac.degrees = longitude
        /\ IF longitude = Deg(360)
           THEN zodiac = [sign |-> "Pisces", degrees |-> Deg(30)]
           ELSE /\ zodiac.sign = ZodiacOrder[(longitude \div Deg(30)) + 1]
                /\ zodiac.degrees = longitude - Deg(30) * (longitude \div Deg(30))
                /\ zodiac.degrees >= 0
                /\ zodiac.degrees < Deg(30)

\* the boundary case and the last grid point before it have both been mapped
C10_Witness ==
    /\ pc = "mapped"
    /\ longitude = Deg(360)
    /\ zodiac = [sign |-> "Pisces", degrees |-> Deg(30)]


-----------------------------------------------------------------------------
(* Observation helpers over the native responses kept in the call log *)

\* Build has returned without an error
BuildSucceeded == pc = "Build_returned" /\ built.err = NilErr

\* what swe_houses answered to the (last) CalcHouses call
HousesResponse == calls[CHOOSE k \in CallIdx("CalcHouses") : TRUE].resp

-----------------------------------------------------------------------------
(* C11 -- every Result of a successful Build has exactly twelve cusp        *)
(* entries in order: entry k has House = k and the longitude the engine     *)
(* put in slot k of its cusp array (k = 1..12); the engine's unused slot 0  *)
(* is not among them.                                                       *)
C11_TwelveCuspsFromSlots1To12 ==
    BuildSucceeded =>
       /\ Len(built.r.Cusps) = 12
       /\ \A k \in 1..12 :
            /\ built.r.Cusps[k].House = k
            /\ built.r.Cusps[k].Longitude = HousesResponse.cusps[k]
       /\ \A k \in 1..12 : built.r.Cusps[k].House # 0

C11_Witness ==
    /\ BuildSucceeded
    /\ Len(built.r.Cusps) = 12
    /\ built.r.Cusps[1].Longitude = HousesResponse.cusps[1]
    /\ built.r.Cusps[1].Longitude # HousesResponse.cusps[0]
    /\ built.r.Cusps[12].Longitude = HousesResponse.cusps[12]


-----------------------------------------------------------------------------
(* C12 -- Build calls CalcPlanet exactly once per requested body, in the    *)
(* caller's order, never again after a failure, and all of them before      *)
(* CalcHouses; a successful Result has one body entry per requested body in *)
(* that order; the default list gives seven entries, Sun .. Saturn.         *)
IsBodyCall(c) == c.op = "CalcPlanet"
BodyCalls == SelectSeq(calls, IsBodyCall)
DefaultBodies == <<Sun, Moon, Mercury, Venus, Mars, Jupiter, Saturn>>
DefaultNames == <<"Sun", "Moon", "Mercury", "Venus", "Mars", "Jupiter", "Saturn">>

-----------------------------------------------------------------------------
(* C13 -- every Result of a successful Build carries, for every body, the   *)
(* latitude, distance, lateral speed and radial speed of the engine         *)
(* response, and the ARMC and Vertex of the CalcHouses response, whatever   *)
(* the verbosity toggle; the toggle only decides whether the renderer       *)
(* writes these stored values: written as stored when verbose, absent when  *)
(* not, the other fields written either way.                                *)
\* cmd.Run has rendered the Result that Build returned
Rendered ==
    /\ entry = "Run" /\ pc \in {"deferred", "done"}
    /\ built.err = NilErr /\ err = NilErr

RawFieldsStored ==
    /\ \A k \in 1..Len(built.r.Planets) :
         /\ built.r.Planets[k].Latitude = BodyCalls[k].resp.xx[2]
         /\ built.r.Planets[k].Distance = BodyCalls[k].resp.xx[3]
         /\ built.r.Planets[k].SpeedLat = BodyCalls[k].resp.xx[5]
         /\ built.r.Planets[k].SpeedDistance = BodyCalls[k].resp.xx[6]
    /\ Len(built.r.Planets) = Len(planets)
    /\ built.r.ARMC = HousesResponse.ascmc[2]
    /\ built.r.Vertex.Longitude = HousesResponse.ascmc[3]

IsRawLine(l) == l.kind \in {"planet_raw", "ARMC", "Vertex"}
IsPlanetLine(l) == l.kind = "planet"
RawJSONFields == {"latitude", "distance", "speed_lat", "speed_distance"}

JSONSurfacesStored(doc) ==
    /\ Len(doc.planets) = Len(built.r.Planets)
    /\ \A k \in 1..Len(doc.planets) :
         LET p == doc.planets[k]
             e == built.r.Planets[k] IN
         /\ p.name = e.Name /\ p.longitude = e.Longitude /\ p.speed = e.Speed
         /\ IF verbose
            THEN /\ RawJSONFields \subseteq DOMAIN p
                 /\ p.latitude = e.Latitude /\ p.distance = e.Distance
                 /\ p.speed_lat = e.SpeedLat
                 /\ p.speed_distance = e.SpeedDistance
            ELSE RawJSONFields \cap DOMAIN p = {}
    /\ IF verbose
       THEN /\ {"armc", "vertex"} \subseteq DOMAIN doc.houses
            /\ doc.houses.armc = built.r.ARMC
            /\ doc.houses.vertex = built.r.Vertex
       ELSE {"armc", "vertex"} \cap DOMAIN doc.houses = {}

TextSurfacesStored ==
    LET raw == SelectSeq(stdout, IsRawLine)
        pl == SelectSeq(stdout, IsPlanetLine) IN
    /\ Len(pl) = Len(built.r.Planets)
    /\ \A k \in 1..Len(pl) : pl[k].doc.Longitude = built.r.Planets[k].Longitude
    /\ IF verbose
       THEN /\ Len(raw) = Len(built.r.Planets) + 2
            /\ \A k \in 1..Len(built.r.Planets) :
                 /\ raw[k].kind = "planet_raw"
                 /\ raw[k].doc.Latitude = built.r.Planets[k].Latitude
                 /\ raw[k].doc.Distance = built.r.Planets[k].Distance
                 /\ raw[k].doc.SpeedLat = built.r.Planets[k].SpeedLat
                 /\ raw[k].doc.SpeedDistance = built.r.Planets[k].SpeedDistance
            /\ raw[Len(raw) - 1] = TextLine("ARMC", built.r.ARMC)
            /\ raw[Len(raw)] = TextLine("Vertex", built.r.Vertex)
       ELSE raw = <<>>

\* C13: the raw fields are stored by every successful Build, and the
\* verbosity toggle only selects whether the renderer writes them
C13_RawFieldsStoredVerbosityOnlySelects ==
    /\ BuildSucceeded => RawFieldsStored
    /\ Rendered =>
         /\ RawFieldsStored
         /\ IF jsonFlag
            THEN Len(stdout) = 1 /\ JSONSurfacesStored(stdout[1].doc)
            ELSE TextSurfacesStored

C13_Witness ==
    /\ Rendered
    /\ ~verbose
    /\ jsonFlag
    /\ Len(stdout) = 1
    /\ RawJSONFields \cap DOMAIN stdout[1].doc.planets[1] = {}
    /\ built.r.Planets[1].Latitude # 0
    /\ built.r.Planets[1].Distance = BodyCalls[1].resp.xx[3]
    /\ built.r.ARMC = HousesResponse.ascmc[2]


-----------------------------------------------------------------------------
(* C14 -- JSON output is atomic: in JSON mode nothing is on standard output *)
(* unless all seven CalcPlanet calls and the CalcHouses call have           *)
(* succeeded, and then it is one whole document; a failed engine call is    *)
(* never preceded or followed by JSON output.                               *)
C14_JSONOutputAtomic ==
    jsonFlag =>
       /\ stdout # <<>> =>
            /\ Len(BodyCalls) = Len(planets)
            /\ FailedBodies = {}
            /\ CallsOf("CalcHouses") = 1
            /\ ~CalcHousesFailed
            /\ Len(stdout) = 1
            /\ stdout[1].kind = "json"
            /\ Len(stdout[1].doc.planets) = Len(planets)
            /\ Len(stdout[1].doc.houses.cusps) = 12
       /\ (FailedBodies # {} \/ CalcHousesFailed) => stdout = <<>>

C14_Witness ==
    /\ jsonFlag
    /\ Done
    /\ Len(BodyCalls) = Len(planets)
    /\ FailedBodies = {}
    /\ CalcHousesFailed
    /\ stdout = <<>>


-----------------------------------------------------------------------------
(* C15 -- cmd.Run returns nil exactly when it rendered the chart that Build *)
(* computed, or when flag parsing ended the run (help); every return from   *)
(* an argument stage carries that stage's error (argument count, datetime,  *)
(* latitude, longitude, house system, executable path), and after any       *)
(* failed CalcPlanet or CalcHouses call Run returns that engine error.      *)
StageError ==
    [nargs |-> "nargs", datetime |-> "datetime", lat |-> "latitude",
     lon |-> "longitude", hsys |-> "housesystem", exe |-> "executable"]

C15_RunReturns ==
    (entry = "Run" /\ pc # "done" /\ pc' = "done") =>
       /\ pc \in {"flags", "deferred"} \cup DOMAIN StageError
       /\ pc = "flags" => err'.kind \in {"nil", "flag"}
       /\ pc \in DOMAIN StageError => err'.kind = StageError[pc]
       /\ pc = "deferred" =>
            /\ err' = err
            /\ err = NilErr <=>
                 /\ built.err = NilErr
                 /\ FailedBodies = {} /\ ~CalcHousesFailed
                 /\ Len(BodyCalls) = Len(planets) /\ CallsOf("CalcHouses") = 1
                 /\ stdout # <<>>
            /\ FailedBodies # {} => err.kind = "planet"
            /\ CalcHousesFailed => err.kind = "houses"
       /\ err' = NilErr => (pc = "flags" \/ (pc = "deferred" /\ stdout # <<>>))

\* C15 as a property of every step in which cmd.Run returns
C15_RunReturnsNilIffRendered == [][C15_RunReturns]_vars

C15_Witness ==
    /\ entry = "Run"
    /\ Done
    /\ FailedBodies # {}
    /\ err.kind = "planet"
    /\ stdout = <<>>


-----------------------------------------------------------------------------
(* C16 -- when every longitude the engine returned lies in [0,360), every   *)
(* longitude-valued field of a Result that Build returned (each body,       *)
(* Ascendant, MC, ARMC, Vertex, each of the twelve cusps) is the engine's   *)
(* value unchanged and lies in [0,360), every stored degree within a sign   *)
(* lies in [0,30), and each entry's (Sign, SignDegree) is ZodiacSign of the *)
(* entry's stored Longitude.                                                *)
InCircle(l) == 0 <= l /\ l < Deg(360)
InSign(d) == 0 <= d /\ d < Deg(30)

EngineLongitudesInCircle ==
    /\ \A k \in 1..Len(BodyCalls) :
         BodyCalls[k].ok => InCircle(BodyCalls[k].resp.xx[1])
    /\ \A h \in CallIdx("CalcHouses") :
         calls[h].ok =>
            /\ \A k \in 1..12 : InCircle(calls[h].resp.cusps[k])
            /\ \A k \in 0..3 : InCircle(calls[h].resp.ascmc[k])

ZodiacOf(e) ==
    /\ InCircle(e.Longitude)
    /\ InSign(e.SignDegree)
    /\ [sign |-> e.Sign, degrees |-> e.SignDegree] = ZodiacSign(e.Longitude)

\* C16: engine longitudes are stored unchanged, within [0,360), with
\* (Sign, SignDegree) = ZodiacSign(Longitude) and SignDegree within [0,30)
C16_LongitudesStoredUnchangedInRange ==
    (BuildSucceeded /\ EngineLongitudesInCircle) =>
       /\ \A k \in 1..Len(built.r.Planets) :
            /\ built.r.Planets[k].Longitude = BodyCalls[k].resp.xx[1]
            /\ ZodiacOf(built.r.Planets[k])
       /\ built.r.Ascendant.Longitude = HousesResponse.ascmc[0]
       /\ built.r.MC.Longitude = HousesResponse.ascmc[1]
       /\ built.r.ARMC = HousesResponse.ascmc[2]
       /\ built.r.Vertex.Longitude = HousesResponse.ascmc[3]
       /\ ZodiacOf(built.r.Ascendant)
       /\ ZodiacOf(built.r.MC)
       /\ ZodiacOf(built.r.Vertex)
       /\ InCircle(built.r.ARMC)
       /\ \A k \in 1..Len(built.r.Cusps) :
            /\ built.r.Cusps[k].Longitude = HousesResponse.cusps[k]
            /\ ZodiacOf(built.r.Cusps[k])

C16_Witness ==
    /\ BuildSucceeded
    /\ EngineLongitudesInCircle
    /\ built.r.Planets[1].Longitude = Deg(360) - 1
    /\ built.r.Planets[1].Sign = "Pisces"
    /\ built.r.Ascendant.Longitude = Deg(359) + 1
    /\ built.r.Cusps[2].Sign = "Aries"


-----------------------------------------------------------------------------
(* C17 -- as claimed: every run of the program configures the engine data   *)
(* path (SetEphePath) exactly once.                                         *)
C17_EveryRunConfiguresOnce ==
    Done => CallsOf("SetEphePath") = 1

(* C17 -- as the code has it: no run configures the data path more than     *)
(* once; a run that got past argument validation and executable-path        *)
(* resolution has configured it exactly once; SetEphePath is the first      *)
(* engine operation of any run, so it completes before JulDay, PlanetName,  *)
(* CalcPlanet and CalcHouses; and a successful run performs SetEphePath,    *)
(* JulDay, the per-body calls, CalcHouses, Close in this order.             *)
BeforeEngine == {"flags", "nargs", "datetime", "lat", "lon", "hsys", "exe",
                 "ephe"}
PerBodyOps == {"PlanetName", "CalcPlanet"}

SuccessfulRun ==
    /\ Done /\ stdout # <<>>
    /\ FailedBodies = {} /\ ~CalcHousesFailed

\* C17 (amended): SetEphePath at most once, exactly once past validation,
\* first among the engine operations, and the order of a successful run
C17_ConfiguredOnceBeforeFirstUse ==
    /\ CallsOf("SetEphePath") <= 1
    /\ calls # <<>> => calls[1].op = "SetEphePath"
    /\ pc \notin (BeforeEngine \cup {"done"}) => CallsOf("SetEphePath") = 1
    /\ pc \in BeforeEngine => calls = <<>>
    /\ SuccessfulRun =>
         /\ Len(calls) = 2 * Len(planets) + 4
         /\ calls[1].op = "SetEphePath"
         /\ calls[2].op = "JulDay"
         /\ \A k \in 3..(2 * Len(planets) + 2) : calls[k].op \in PerBodyOps
         /\ calls[2 * Len(planets) + 3].op = "CalcHouses"
         /\ calls[2 * Len(planets) + 4].op = "Close"

C17_Witness ==
    /\ SuccessfulRun
    /\ Len(calls) = 18
    /\ calls[1].op = "SetEphePath"
    /\ calls[18].op = "Close"


-----------------------------------------------------------------------------
(* C18 -- a caller holds the adapter mutex only from mu.Lock() just before  *)
(* a native call to mu.Unlock() just after it: never while Build runs its   *)
(* own code (ZodiacSign, appending entries, wrapping an error), never       *)
(* between two adapter calls and never after Build returned; so one         *)
(* caller's native call can run between two adapter calls of another        *)
(* caller's Build.                                                          *)
OutsideNativeCall == {"logic", "entered", "return", "wrap", "returned"}

\* C18: the mutex is held only between Lock and Unlock around a native call
C18_MutexHeldOnlyAroundNativeCall ==
    \A c \in Callers :
       /\ mu = c => (cpc[c] \in {"native", "unlock"} /\ cop[c] \in LockingOps)
       /\ cpc[c] \in OutsideNativeCall => mu # c

\* one Build is inside the native call for its second body, holding the
\* mutex, while another Build, its first CalcPlanet done, runs its own code
C18_Witness ==
    \E a, b \in Callers :
       /\ a # b
       /\ cop[a] = "CalcPlanet" /\ ci[a] = 2 /\ cpc[a] = "native" /\ mu = a
       /\ cop[b] = "CalcPlanet" /\ ci[b] = 1 /\ cpc[b] = "logic"


-----------------------------------------------------------------------------
(* C19 -- rendering never changes the Result and never calls the engine:    *)
(* the step in which cmd.Run calls PrintText or PrintJSON, verbose or not,  *)
(* leaves every field of the Result, the Planets and Cusps elements         *)
(* included, and the log of adapter calls as they were; the only adapter    *)
(* operation after Build's return is the deferred Close.                    *)
C19_RenderStep ==
    /\ (entry = "Run" /\ pc = "Build_returned") =>
          /\ built' = built
          /\ built'.r.Planets = built.r.Planets
          /\ built'.r.Cusps = built.r.Cusps
          /\ calls' = calls
    /\ (entry = "Run" /\ pc = "deferred") =>
          /\ built' = built
          /\ calls' = Append(calls, Call("Close", -1, TRUE))
    /\ (entry = "Run" /\ pc = "done") => (built' = built /\ calls' = calls)

\* C19 as a property of every step of the run
C19_RenderingReadsOnly == [][C19_RenderStep]_vars

C19_Witness ==
    /\ Rendered
    /\ Done
    /\ verbose
    /\ jsonFlag
    /\ stdout # <<>>
    /\ stdout[1].doc.planets[1].latitude = built.r.Planets[1].Latitude
    /\ built.r.Planets[1].Latitude # 0
    /\ calls[Len(calls)].op = "Close"
    /\ calls[Len(calls) - 1].op = "CalcHouses"


-----------------------------------------------------------------------------
(* C20 -- the house-system name stored in the Result and written by the     *)
(* renderers is the canonical display name of the resolved system           *)
(* ("Placidus", "Koch", "Whole Sign", ...), never the text that was given   *)
(* to --house-system.                                                       *)
CanonicalName(code) ==
    CASE code = HousePlacidus -> "Placidus"
      [] code = HouseKoch -> "Koch"
      [] code = HouseWholeSign -> "Whole Sign"
      [] code = HouseRegiomontanus -> "Regiomontanus"
      [] code = HouseEqual -> "Equal"
      [] code = HouseCampanus -> "Campanus"
      [] OTHER -> ""

\* the same names as code points, for output that carries the name as text
CanonicalRunes(code) ==
    CASE code = HousePlacidus -> <<80, 108, 97, 99, 105, 100, 117, 115>>
      [] code = HouseKoch -> <<75, 111, 99, 104>>
      [] code = HouseWholeSign -> <<87, 104, 111, 108, 101, 32, 83, 105, 103, 110>>
      [] code = HouseRegiomontanus ->
           <<82, 101, 103, 105, 111, 109, 111, 110, 116, 97, 110, 117, 115>>
      [] code = HouseEqual -> <<69, 113, 117, 97, 108>>
      [] code = HouseCampanus -> <<67, 97, 109, 112, 97, 110, 117, 115>>
      [] OTHER -> <<>>

\* the house-system names on standard output, in order
RenderedSystems ==
    [k \in {j \in 1..Len(stdout) : stdout[j].kind \in {"Houses", "json"}} |->
       IF stdout[k].kind = "json" THEN stdout[k].doc.houses.system
                                  ELSE stdout[k].doc.system]

\* C20: the stored and the rendered house-system name is the display name
C20_CanonicalNameRendered ==
    /\ entry = "Run" =>
          /\ BuildSucceeded => built.r.HouseName = CanonicalName(hsys)
          /\ \A k \in DOMAIN RenderedSystems :
               RenderedSystems[k] = CanonicalName(hsys)
    /\ entry = "main" =>
          \A k \in DOMAIN RenderedSystems :
               RenderedSystems[k] = CanonicalRunes(hsys)


-----------------------------------------------------------------------------
(* C21 -- every adapter operation that takes the mutex releases it on every *)
(* path, a negative engine status included; so with concurrent Build        *)
(* callers, a fair scheduler and native calls that return, a caller that    *)
(* holds the mutex lets go of it, every caller waiting in mu.Lock()         *)
(* eventually acquires the mutex, and every Build invocation returns, with  *)
(* a Result or with an error (no deadlock).                                 *)
Blocked(c) == cpc[c] = "entered" /\ cop[c] \in LockingOps
Returned(c) == cpc[c] = "returned"

\* C21: the mutex is always released, every waiting caller acquires it,
\* and every concurrent Build returns
C21_MutexReleasedBuildsTerminate ==
    \A c \in Callers :
       /\ (mu = c) ~> (mu # c)
       /\ Blocked(c) ~> (mu = c)
       /\ <>[](Returned(c) /\ mu = 0)

\* a caller waits in mu.Lock() while another, inside its own adapter call,
\* holds the mutex
C21_Witness ==
    \E a, b \in Callers :
       /\ a # b
       /\ Blocked(a)
       /\ mu = b /\ cpc[b] = "unlock" /\ cop[b] = "CalcPlanet"


-----------------------------------------------------------------------------
(* C22 -- when CalcPlanet fails for a body, Build returns at once with an   *)
(* error naming that body and an empty Result: the failed call is the last  *)
(* engine call of the invocation (no CalcPlanet for a later body, no        *)
(* CalcHouses), and the entries computed for the earlier bodies are not     *)
(* returned.                                                                *)
FailedBodyIdx == {k \in CallIdx("CalcPlanet") : ~calls[k].ok}
AfterBuild == {"Build_returned", "deferred", "done"}

\* C22: a failed CalcPlanet ends Build with the body's error, an empty
\* Result and no further engine call
C22_BuildAbortsAtFailedBody ==
    (entry = "Run" /\ FailedBodyIdx # {}) =>
       /\ pc \in AfterBuild
       /\ Cardinality(FailedBodyIdx) = 1
       /\ \A f \in FailedBodyIdx :
            /\ built.err = Error("planet", PlanetName(calls[f].planet))
            /\ \A k \in (f + 1)..Len(calls) : calls[k].op = "Close"
            /\ pc = "Build_returned" => f = Len(calls)
            /\ Len(r.Planets) = Len(BodyCalls) - 1
       /\ built.r = EmptyResult
       /\ built.r.Planets = <<>>
       /\ CallsOf("CalcHouses") = 0
       /\ stdout = <<>>

\* Mercury, the third body, failed after Sun and Moon had been computed
C22_Witness ==
    /\ entry = "Run"
    /\ pc = "Build_returned"
    /\ FailedBodies = {Mercury}
    /\ Len(r.Planets) = 2
    /\ built.r = EmptyResult
    /\ built.err.detail = "Mercury"

====
